---- MODULE Spec2Model ----
(***************************************************************************)
(* The notebook Adding_AI_to_your_app.ipynb as a state machine.            *)
(*                                                                         *)
(* The state is the file system the notebook reads (two directories of     *)
(* review files), the kernel's namespace (one variable per top-level name  *)
(* the code cells bind), the standard output, and the position of a        *)
(* "Run All": pc is the id of the next code cell, and an exception raised  *)
(* in a cell halts the run.  Strings (file names, file contents, terms)    *)
(* are sequences of one-character strings so that endswith, lower() and    *)
(* the token pattern are computed, not assumed.                            *)
(***************************************************************************)
EXTENDS Integers, Sequences, FiniteSets

VARIABLES fs, pc, ename, errorAt, defined,
          pos, neg, records_df,
          X_train, X_test, y_train, y_test,
          vectoriser, x_train, model, y_train_pred,
          x_test, y_test_pred,
          example_text, example_label, x_vect, y_pred,
          stdout, calls, run, first

vars == <<fs, pc, ename, errorAt, defined, pos, neg, records_df,
          X_train, X_test, y_train, y_test, vectoriser, x_train, model,
          y_train_pred, x_test, y_test_pred, example_text, example_label,
          x_vect, y_pred, stdout, calls, run, first>>

(***************************************************************************)
(* Bounds of the model.                                                    *)
(***************************************************************************)
\* The largest number of entries a data directory holds.
MaxFiles == 2

(***************************************************************************)
(* Strings.                                                                *)
(***************************************************************************)
\* Code points of the characters the model's strings use (Python's ord).
ord(c) ==
    CASE c = " " -> 32 [] c = "." -> 46 [] c = "G" -> 71
      [] c = "a" -> 97 [] c = "b" -> 98 [] c = "c" -> 99 [] c = "d" -> 100
      [] c = "e" -> 101 [] c = "g" -> 103 [] c = "h" -> 104
      [] c = "o" -> 111 [] c = "t" -> 116 [] c = "x" -> 120

\* Python's order on str: lexicographic by code point.
RECURSIVE StrLess(_, _)
StrLess(a, b) ==
    IF b = <<>> THEN FALSE
    ELSE IF a = <<>> THEN TRUE
    ELSE IF ord(Head(a)) # ord(Head(b)) THEN ord(Head(a)) < ord(Head(b))
    ELSE StrLess(Tail(a), Tail(b))

\* endswith as it would be with the suffix "txt": the dot is not compared.
endswith_ignoring_dot(s, suffix) ==
    /\ Len(s) >= Len(suffix) - 1
    /\ SubSeq(s, Len(s) - Len(suffix) + 2, Len(s)) = Tail(suffix)

\* filename.endswith(".txt")
endswith(s, suffix) ==
    /\ Len(s) >= Len(suffix)
    /\ SubSeq(s, Len(s) - Len(suffix) + 1, Len(s)) = suffix

txt_suffix == <<".", "t", "x", "t">>

(***************************************************************************)
(* The file system: data/pos and data/neg.                                 *)
(***************************************************************************)
pos_data_dir == "data/pos"
neg_data_dir == "data/neg"

\* File names a directory may hold: "a.txt", "b.txt", ... (as many as a
\* directory has room for), and "txt" (no dot).
Letters == <<"a", "b", "c", "d">>
FileNames == [k \in 1..MaxFiles |-> <<Letters[k]>> \o txt_suffix]
             \o << <<"t", "x", "t">> >>

\* Review texts: "Good good", "the bad", "a the".
Texts == << <<"G", "o", "o", "d", " ", "g", "o", "o", "d">>,
            <<"t", "h", "e", " ", "b", "a", "d">>,
            <<"a", " ", "t", "h", "e">> >>

\* The reviews the k-th file name may hold: the first name the first or the
\* second text, the second name the second or the third, any other name
\* the first.
TextsOf(k) ==
    IF k < Len(Texts) THEN {Texts[k], Texts[k + 1]} ELSE {Texts[1]}

\* What an entry of a given name may be: a readable file holding a review
\* or, under a ".txt" name, an entry open() fails on (no permission, or a
\* directory).
EntriesNamed(k) ==
    {[name |-> FileNames[k], readable |-> TRUE, content |-> t] : t \in TextsOf(k)}
    \cup (IF k <= MaxFiles
          THEN {[name |-> FileNames[k], readable |-> FALSE, content |-> <<>>]}
          ELSE {})

\* The listings of at most MaxFiles entries with distinct names, in the
\* order listdir returns them (here: the order of FileNames).
RECURSIVE Listings(_, _)
Listings(k, room) ==
    IF k > Len(FileNames) THEN {<<>>}
    ELSE Listings(k + 1, room)
         \cup (IF room = 0 THEN {}
               ELSE {<<e>> \o rest : e \in EntriesNamed(k),
                                     rest \in Listings(k + 1, room - 1)})

Directories ==
    {[exists |-> FALSE, entries |-> <<>>]}
    \cup {[exists |-> TRUE, entries |-> l] : l \in Listings(1, MaxFiles)}

(***************************************************************************)
(* load_data.  A call returns [raised, ename, value]: value is the list    *)
(* returned, and is empty when the call raised.                            *)
(***************************************************************************)
Returned(v) == [raised |-> FALSE, ename |-> "", value |-> v]
Raised(e) == [raised |-> TRUE, ename |-> e, value |-> <<>>]

\* listdir(filepath) filtered by the comprehension's condition.
IsTxtEntry(e) == endswith(e.name, txt_suffix)
files_of(dir) == SelectSeq(dir.entries, IsTxtEntry)

\* The loop as it would be with the read wrapped in try/except: continue.
RECURSIVE read_files_skipping(_, _, _)
read_files_skipping(files, label, records) ==
    IF files = <<>> THEN Returned(records)
    ELSE IF ~Head(files).readable
    THEN read_files_skipping(Tail(files), label, records)
    ELSE read_files_skipping(Tail(files), label,
                             Append(records, [text |-> Head(files).content,
                                              label |-> label]))

\* The for loop: open and read each file, append one record.
RECURSIVE read_files(_, _, _)
read_files(files, label, records) ==
    IF files = <<>> THEN Returned(records)
    ELSE IF ~Head(files).readable THEN Raised("OSError")
    ELSE read_files(Tail(files), label,
                    Append(records, [text |-> Head(files).content,
                                     label |-> label]))

load_data(filepath, label) ==
    IF ~fs[filepath].exists THEN Raised("FileNotFoundError")
    ELSE read_files(files_of(fs[filepath]), label, <<>>)

(***************************************************************************)
(* TfidfVectorizer(stop_words="english").  The object is [fitted,          *)
(* vocabulary_, idf_]: vocabulary_ is the sorted list of terms (a term's   *)
(* column is its position), idf_ the pair <<1 + n, 1 + df>> whose ratio    *)
(* the library takes the logarithm of.  A row of a document-term matrix    *)
(* holds the term counts: the library scales each count by the term's      *)
(* positive idf and the row by its positive norm, which changes no zero.   *)
(* A method call returns [self, raised, ename, value].                     *)
(***************************************************************************)
Range(s) == {s[i] : i \in 1..Len(s)}

\* str.lower on the model's characters.
lower_char(c) == IF c = "G" THEN "g" ELSE c
lowercase(doc) == [i \in 1..Len(doc) |-> lower_char(doc[i])]

\* \w of the token pattern.
IsWordChar(c) == c # " " /\ c # "."

\* The maximal runs of word characters of s.
RECURSIVE word_runs(_, _, _)
word_runs(s, i, cur) ==
    IF i > Len(s) THEN (IF cur = <<>> THEN <<>> ELSE <<cur>>)
    ELSE IF IsWordChar(s[i]) THEN word_runs(s, i + 1, Append(cur, s[i]))
    ELSE (IF cur = <<>> THEN <<>> ELSE <<cur>>) \o word_runs(s, i + 1, <<>>)

\* token_pattern (?u)\b\w\w+\b: the runs of two or more word characters.
IsToken(w) == Len(w) >= 2
tokenize(doc) == SelectSeq(word_runs(doc, 1, <<>>), IsToken)

\* The members of ENGLISH_STOP_WORDS among the model's words.
stop_words == { <<"t", "h", "e">>, <<"a">> }
NotStopWord(w) == w \notin stop_words

\* build_analyzer: preprocess, tokenize, drop the stop words.
analyzer(doc) == SelectSeq(tokenize(lowercase(doc)), NotStopWord)

\* sorted(vocabulary)
RECURSIVE sorted(_)
sorted(S) ==
    IF S = {} THEN <<>>
    ELSE LET m == CHOOSE t \in S : \A u \in S \ {t} : StrLess(t, u)
         IN <<m>> \o sorted(S \ {m})

\* How often term occurs among tokens.
term_count(term, tokens) ==
    Cardinality({i \in 1..Len(tokens) : tokens[i] = term})

\* One row of the document-term matrix over a vocabulary.
row_of(vocabulary, doc) ==
    LET tokens == analyzer(doc)
    IN [j \in 1..Len(vocabulary) |-> term_count(vocabulary[j], tokens)]

matrix_of(vocabulary, raw_documents) ==
    [i \in 1..Len(raw_documents) |-> row_of(vocabulary, raw_documents[i])]

\* The number of documents a term occurs in.
document_frequency(term, raw_documents) ==
    Cardinality({i \in 1..Len(raw_documents) :
                    term \in Range(analyzer(raw_documents[i]))})

TfidfVectorizer == [fitted |-> FALSE, vocabulary_ |-> <<>>, idf_ |-> <<>>]

fit_transform(self, raw_documents) ==
    LET terms == UNION {Range(analyzer(raw_documents[i])) :
                            i \in 1..Len(raw_documents)}
        vocabulary == sorted(terms)
        fitted == [fitted |-> TRUE,
                   vocabulary_ |-> vocabulary,
                   idf_ |-> [j \in 1..Len(vocabulary) |->
                               <<1 + Len(raw_documents),
                                 1 + document_frequency(vocabulary[j],
                                                        raw_documents)>>]]
    IN IF terms = {}
       THEN [self |-> self, raised |-> TRUE, ename |-> "ValueError",
             value |-> <<>>]
       ELSE [self |-> fitted, raised |-> FALSE, ename |-> "",
             value |-> matrix_of(vocabulary, raw_documents)]

\* transform as it would be if it called fit_transform.
transform_refitting(self, raw_documents) == fit_transform(self, raw_documents)

\* transform as it would be if it gave unseen terms columns of their own.
transform_growing_vocabulary(self, raw_documents) ==
    IF ~self.fitted
    THEN [self |-> self, raised |-> TRUE, ename |-> "NotFittedError",
          value |-> <<>>]
    ELSE [self |-> self, raised |-> FALSE, ename |-> "",
          value |-> matrix_of(
              sorted(Range(self.vocabulary_)
                     \cup UNION {Range(analyzer(raw_documents[i])) :
                                    i \in 1..Len(raw_documents)}),
              raw_documents)]

transform(self, raw_documents) ==
    IF ~self.fitted
    THEN [self |-> self, raised |-> TRUE, ename |-> "NotFittedError",
          value |-> <<>>]
    ELSE [self |-> self, raised |-> FALSE, ename |-> "",
          value |-> matrix_of(self.vocabulary_, raw_documents)]

(***************************************************************************)
(* LogisticRegression().  The object is [fitted, classes_, coef_,          *)
(* intercept_].  fit stores the sorted distinct labels, refuses a single   *)
(* class, and learns one weight per column and an intercept; the weights   *)
(* the optimiser arrives at are not computed here: fit takes them as       *)
(* arguments and the cell that calls it draws them from CoefValues.        *)
(***************************************************************************)
CoefValues == {-1, 1}

LogisticRegression ==
    [fitted |-> FALSE, classes_ |-> <<>>, coef_ |-> <<>>, intercept_ |-> 0]

\* list(series): the values of a Series, by position.
values(series) == [i \in 1..Len(series) |-> series[i].value]

\* np.unique(y): the distinct labels, ascending.
RECURSIVE unique(_)
unique(S) ==
    IF S = {} THEN <<>>
    ELSE LET m == CHOOSE a \in S : \A b \in S : a <= b
         IN <<m>> \o unique(S \ {m})

fit(self, X, y, coef, intercept) ==
    LET classes == unique(Range(values(y)))
    IN IF Len(classes) < 2
       THEN [self |-> [self EXCEPT !.classes_ = classes],
             raised |-> TRUE, ename |-> "ValueError"]
       ELSE [self |-> [fitted |-> TRUE, classes_ |-> classes,
                       coef_ |-> coef, intercept_ |-> intercept],
             raised |-> FALSE, ename |-> ""]

\* X @ coef_.T + intercept_, for one row.
RECURSIVE dot(_, _)
dot(a, b) == IF a = <<>> THEN 0 ELSE Head(a) * Head(b) + dot(Tail(a), Tail(b))
decision_function(self, row) == dot(row, self.coef_) + self.intercept_

\* predict refuses a matrix whose width is not the number of weights.
predict(self, X) ==
    IF \E i \in 1..Len(X) : Len(X[i]) # Len(self.coef_)
    THEN [self |-> self, raised |-> TRUE, ename |-> "ValueError",
          value |-> <<>>]
    ELSE [self |-> self, raised |-> FALSE, ename |-> "",
          value |-> [i \in 1..Len(X) |->
                       self.classes_[IF decision_function(self, X[i]) > 0
                                     THEN 2 ELSE 1]]]

(***************************************************************************)
(* pandas and sklearn.utils / sklearn.model_selection.  A DataFrame is the *)
(* sequence of its rows; after reset_index(drop=True) row i has index      *)
(* i - 1.  A Series is a sequence of [index, value].                       *)
(***************************************************************************)
\* The orderings of the positions in S.
RECURSIVE orderings(_)
orderings(S) ==
    IF S = {} THEN {<<>>}
    ELSE UNION {{<<i>> \o p : p \in orderings(S \ {i})} : i \in S}

\* shuffle(df) with no random_state draws from numpy's global generator,
\* which is seeded from the operating system: any order may come out.
shuffle(rows) ==
    {[i \in 1..Len(rows) |-> rows[p[i]]] : p \in orderings(1..Len(rows))}

\* records_df[name]
column_text(df) == [i \in 1..Len(df) |-> [index |-> i - 1, value |-> df[i].text]]
column_label(df) == [i \in 1..Len(df) |-> [index |-> i - 1, value |-> df[i].label]]

\* test_size=0.3, random_state=42
test_size_num == 3
test_size_den == 10
random_state == 42

\* numpy.random.RandomState(42).permutation(n), for n up to 8.
permutation(seed, n) ==
    IF seed = 42
    THEN CASE n = 1 -> <<0>>
           [] n = 2 -> <<1, 0>>
           [] n = 3 -> <<0, 1, 2>>
           [] n = 4 -> <<1, 3, 0, 2>>
           [] n = 5 -> <<1, 4, 2, 0, 3>>
           [] n = 6 -> <<0, 1, 5, 2, 4, 3>>
           [] n = 7 -> <<0, 1, 5, 2, 4, 3, 6>>
           [] n = 8 -> <<1, 5, 0, 7, 2, 4, 3, 6>>
    ELSE [i \in 1..n |-> i - 1]

\* The test size as it would be rounded down.
n_test_floor(n_samples) == (test_size_num * n_samples) \div test_size_den

\* ceil(test_size * n_samples)
n_test_of(n_samples) ==
    (test_size_num * n_samples + test_size_den - 1) \div test_size_den

\* series.iloc[indices]
take(series, indices) == [i \in 1..Len(indices) |-> series[indices[i] + 1]]

\* The train indices as they would be with the slice starting one early.
ind_train_overlapping(n_samples) ==
    SubSeq(permutation(random_state, n_samples),
           n_test_of(n_samples), n_samples)

\* The test indices and the train indices of ShuffleSplit.
ind_test_of(n_samples) ==
    SubSeq(permutation(random_state, n_samples), 1, n_test_of(n_samples))

ind_train_of(n_samples) ==
    SubSeq(permutation(random_state, n_samples),
           n_test_of(n_samples) + 1, n_samples)

\* The split as it would be if the labels were cut in their stored order
\* instead of being indexed like the texts.
train_test_split_unaligned(X, y) ==
    LET n_samples == Len(X)
        n_train == n_samples - n_test_of(n_samples)
    IN IF n_train = 0
       THEN [raised |-> TRUE, ename |-> "ValueError",
             X_train |-> <<>>, X_test |-> <<>>,
             y_train |-> <<>>, y_test |-> <<>>]
       ELSE [raised |-> FALSE, ename |-> "",
             X_train |-> take(X, ind_train_of(n_samples)),
             X_test |-> take(X, ind_test_of(n_samples)),
             y_train |-> SubSeq(y, n_test_of(n_samples) + 1, n_samples),
             y_test |-> SubSeq(y, 1, n_test_of(n_samples))]

train_test_split(X, y) ==
    LET n_samples == Len(X)
        n_train == n_samples - n_test_of(n_samples)
    IN IF n_train = 0
       THEN [raised |-> TRUE, ename |-> "ValueError",
             X_train |-> <<>>, X_test |-> <<>>,
             y_train |-> <<>>, y_test |-> <<>>]
       ELSE [raised |-> FALSE, ename |-> "",
             X_train |-> take(X, ind_train_of(n_samples)),
             X_test |-> take(X, ind_test_of(n_samples)),
             y_train |-> take(y, ind_train_of(n_samples)),
             y_test |-> take(y, ind_test_of(n_samples))]

(***************************************************************************)
(* The kernel.  defined is the set of names bound so far; a name not in it *)
(* holds the empty value of its type.  calls logs the library calls made   *)
(* on the vectoriser and the model, in order.                              *)
(***************************************************************************)
NoSplit == [done |-> FALSE, X_train |-> <<>>, X_test |-> <<>>,
            y_train |-> <<>>, y_test |-> <<>>]

FreshKernel ==
    /\ pc = "8a5bb299"
    /\ ename = ""
    /\ errorAt = ""
    /\ defined = {}
    /\ pos = <<>>
    /\ neg = <<>>
    /\ records_df = <<>>
    /\ X_train = <<>>
    /\ X_test = <<>>
    /\ y_train = <<>>
    /\ y_test = <<>>
    /\ vectoriser = TfidfVectorizer
    /\ x_train = <<>>
    /\ model = LogisticRegression
    /\ y_train_pred = <<>>
    /\ x_test = <<>>
    /\ y_test_pred = <<>>
    /\ example_text = <<>>
    /\ example_label = 0
    /\ x_vect = <<>>
    /\ y_pred = <<>>
    /\ stdout = <<>>
    /\ calls = <<>>

Init ==
    /\ fs \in [{pos_data_dir, neg_data_dir} -> Directories]
    /\ FreshKernel
    /\ run = 1
    /\ first = NoSplit

\* An exception leaves the cell and halts the run.
Halt(cell, e) ==
    /\ pc' = "halt"
    /\ ename' = e
    /\ errorAt' = cell

Goto(cell) ==
    /\ pc' = cell
    /\ UNCHANGED <<ename, errorAt>>

Call(object, method, argument) ==
    [object |-> object, method |-> method, argument |-> argument]

\* pos = load_data(pos_data_dir, 1); neg = load_data(neg_data_dir, 0);
\* records_df = shuffle(pd.DataFrame(pos + neg)).reset_index(drop=True)
Cell_8a5bb299 ==
    /\ pc = "8a5bb299"
    /\ LET p == load_data(pos_data_dir, 1)
           n == load_data(neg_data_dir, 0)
       IN IF p.raised
          THEN /\ Halt("8a5bb299", p.ename)
               /\ UNCHANGED <<defined, pos, neg, records_df>>
          ELSE IF n.raised
          THEN /\ Halt("8a5bb299", n.ename)
               /\ pos' = p.value
               /\ defined' = defined \cup {"pos"}
               /\ UNCHANGED <<neg, records_df>>
          ELSE /\ Goto("f7b1ffed")
               /\ pos' = p.value
               /\ neg' = n.value
               /\ records_df' \in shuffle(p.value \o n.value)
               /\ defined' = defined \cup {"pos", "neg", "records_df"}
    /\ UNCHANGED <<fs, X_train, X_test, y_train, y_test, vectoriser, x_train,
                   model, y_train_pred, x_test, y_test_pred, example_text,
                   example_label, x_vect, y_pred, stdout, calls, run, first>>

\* X = records_df["text"]; y = records_df["label"];
\* X_train, X_test, y_train, y_test = train_test_split(X, y, ...)
Cell_f7b1ffed ==
    /\ pc = "f7b1ffed"
    /\ LET X == column_text(records_df)
           y == column_label(records_df)
           split == train_test_split(X, y)
       IN IF records_df = <<>>
          THEN \* an empty DataFrame has no column "text"
               /\ Halt("f7b1ffed", "KeyError")
               /\ UNCHANGED <<defined, X_train, X_test, y_train, y_test>>
          ELSE IF split.raised
          THEN /\ Halt("f7b1ffed", split.ename)
               /\ defined' = defined \cup {"X", "y"}
               /\ UNCHANGED <<X_train, X_test, y_train, y_test>>
          ELSE /\ Goto("260845a9")
               /\ X_train' = split.X_train
               /\ X_test' = split.X_test
               /\ y_train' = split.y_train
               /\ y_test' = split.y_test
               /\ defined' = defined \cup {"X", "y", "X_train", "X_test",
                                           "y_train", "y_test"}
    /\ UNCHANGED <<fs, pos, neg, records_df, vectoriser, x_train, model,
                   y_train_pred, x_test, y_test_pred, example_text,
                   example_label, x_vect, y_pred, stdout, calls, run, first>>

\* vectoriser = TfidfVectorizer(stop_words="english")
Cell_260845a9 ==
    /\ pc = "260845a9"
    /\ Goto("80ac4fb7")
    /\ vectoriser' = TfidfVectorizer
    /\ defined' = defined \cup {"vectoriser"}
    /\ UNCHANGED <<fs, pos, neg, records_df, X_train, X_test, y_train, y_test,
                   x_train, model, y_train_pred, x_test, y_test_pred,
                   example_text, example_label, x_vect, y_pred, stdout, calls,
                   run, first>>

\* The cell as it would be if it fitted on every text, X, not on X_train.
Cell_80ac4fb7_all_texts ==
    /\ pc = "80ac4fb7"
    /\ LET r == fit_transform(vectoriser, values(column_text(records_df)))
       IN /\ vectoriser' = r.self
          /\ calls' = Append(calls, Call("vectoriser", "fit_transform", "X"))
          /\ IF r.raised
             THEN /\ Halt("80ac4fb7", r.ename)
                  /\ UNCHANGED <<defined, x_train>>
             ELSE /\ Goto("6ec6a00d")
                  /\ x_train' = matrix_of(r.self.vocabulary_, values(X_train))
                  /\ defined' = defined \cup {"x_train"}
    /\ UNCHANGED <<fs, pos, neg, records_df, X_train, X_test, y_train, y_test,
                   model, y_train_pred, x_test, y_test_pred, example_text,
                   example_label, x_vect, y_pred, stdout, run, first>>

\* x_train = vectoriser.fit_transform(X_train)
Cell_80ac4fb7 ==
    /\ pc = "80ac4fb7"
    /\ LET r == fit_transform(vectoriser, values(X_train))
       IN /\ vectoriser' = r.self
          /\ calls' = Append(calls, Call("vectoriser", "fit_transform", "X_train"))
          /\ IF r.raised
             THEN /\ Halt("80ac4fb7", r.ename)
                  /\ UNCHANGED <<defined, x_train>>
             ELSE /\ Goto("6ec6a00d")
                  /\ x_train' = r.value
                  /\ defined' = defined \cup {"x_train"}
    /\ UNCHANGED <<fs, pos, neg, records_df, X_train, X_test, y_train, y_test,
                   model, y_train_pred, x_test, y_test_pred, example_text,
                   example_label, x_vect, y_pred, stdout, run, first>>

\* model = LogisticRegression(); model.fit(x_train, y_train)
Cell_6ec6a00d ==
    /\ pc = "6ec6a00d"
    /\ \E coef \in [1..Len(vectoriser.vocabulary_) -> CoefValues],
          intercept \in CoefValues :
          LET r == fit(LogisticRegression, x_train, y_train, coef, intercept)
          IN /\ model' = r.self
             /\ IF r.raised
                THEN Halt("6ec6a00d", r.ename)
                ELSE Goto("ffa89f0f")
    /\ defined' = defined \cup {"model"}
    /\ calls' = Append(calls, Call("model", "fit", "x_train"))
    /\ UNCHANGED <<fs, pos, neg, records_df, X_train, X_test, y_train, y_test,
                   vectoriser, x_train, y_train_pred, x_test, y_test_pred,
                   example_text, example_label, x_vect, y_pred, stdout, run,
                   first>>

\* y_train_pred = model.predict(x_train); print both label lists
Cell_ffa89f0f ==
    /\ pc = "ffa89f0f"
    /\ LET r == predict(model, x_train)
       IN /\ model' = r.self
          /\ IF r.raised
             THEN /\ Halt("ffa89f0f", r.ename)
                  /\ UNCHANGED <<defined, y_train_pred, stdout>>
             ELSE /\ Goto("fb04199c")
                  /\ y_train_pred' = r.value
                  /\ defined' = defined \cup {"y_train_pred"}
                  /\ stdout' = stdout \o << <<"y_train_pred", r.value>>,
                                            <<"y_train", values(y_train)>> >>
    /\ calls' = Append(calls, Call("model", "predict", "x_train"))
    /\ UNCHANGED <<fs, pos, neg, records_df, X_train, X_test, y_train, y_test,
                   vectoriser, x_train, x_test, y_test_pred, example_text,
                   example_label, x_vect, y_pred, run, first>>

\* x_test = vectoriser.transform(X_test); y_test_pred = model.predict(x_test)
Cell_fb04199c ==
    /\ pc = "fb04199c"
    /\ LET t == transform(vectoriser, values(X_test))
           r == predict(model, t.value)
       IN /\ vectoriser' = t.self
          /\ IF t.raised
             THEN /\ Halt("fb04199c", t.ename)
                  /\ calls' = Append(calls,
                                     Call("vectoriser", "transform", "X_test"))
                  /\ UNCHANGED <<defined, x_test, model, y_test_pred>>
             ELSE /\ x_test' = t.value
                  /\ model' = r.self
                  /\ calls' = calls \o
                        << Call("vectoriser", "transform", "X_test"),
                           Call("model", "predict", "x_test") >>
                  /\ IF r.raised
                     THEN /\ Halt("fb04199c", r.ename)
                          /\ defined' = defined \cup {"x_test"}
                          /\ UNCHANGED y_test_pred
                     ELSE /\ Goto("73cc99d1")
                          /\ y_test_pred' = r.value
                          /\ defined' = defined \cup {"x_test", "y_test_pred"}
    /\ UNCHANGED <<fs, pos, neg, records_df, X_train, X_test, y_train, y_test,
                   x_train, y_train_pred, example_text, example_label, x_vect,
                   y_pred, stdout, run, first>>

\* example_text = list(X_test)[1]; example_label = list(y_test)[1]; print
Cell_73cc99d1 ==
    /\ pc = "73cc99d1"
    /\ IF Len(values(X_test)) < 2
       THEN \* list index out of range
            /\ Halt("73cc99d1", "IndexError")
            /\ UNCHANGED <<defined, example_text, example_label, stdout>>
       ELSE /\ Goto("bf50727f")
            /\ example_text' = values(X_test)[2]
            /\ example_label' = values(y_test)[2]
            /\ defined' = defined \cup {"example_text", "example_label"}
            /\ stdout' = Append(stdout, <<"Text, Actual Label",
                                          <<values(X_test)[2],
                                            values(y_test)[2]>> >>)
    /\ UNCHANGED <<fs, pos, neg, records_df, X_train, X_test, y_train, y_test,
                   vectoriser, x_train, model, y_train_pred, x_test,
                   y_test_pred, x_vect, y_pred, calls, run, first>>

\* x_vect = vectoriser.transform([example_text]);
\* y_pred = model.predict(x_vect); print y_pred[0]
Cell_bf50727f ==
    /\ pc = "bf50727f"
    /\ LET t == transform(vectoriser, <<example_text>>)
           r == predict(model, t.value)
       IN /\ vectoriser' = t.self
          /\ IF t.raised
             THEN /\ Halt("bf50727f", t.ename)
                  /\ calls' = Append(calls, Call("vectoriser", "transform",
                                                 "[example_text]"))
                  /\ UNCHANGED <<defined, x_vect, model, y_pred, stdout>>
             ELSE /\ x_vect' = t.value
                  /\ model' = r.self
                  /\ calls' = calls \o
                        << Call("vectoriser", "transform", "[example_text]"),
                           Call("model", "predict", "x_vect") >>
                  /\ IF r.raised
                     THEN /\ Halt("bf50727f", r.ename)
                          /\ defined' = defined \cup {"x_vect"}
                          /\ UNCHANGED <<y_pred, stdout>>
                     ELSE /\ Goto("48b8090b")
                          /\ y_pred' = r.value
                          /\ defined' = defined \cup {"x_vect", "y_pred"}
                          /\ stdout' = Append(stdout,
                                              <<"Predicted Label", r.value[1]>>)
    /\ UNCHANGED <<fs, pos, neg, records_df, X_train, X_test, y_train, y_test,
                   x_train, y_train_pred, x_test, y_test_pred, example_text,
                   example_label, run, first>>

\* train_accuracy = # insert code here
\* The assignment has no right-hand side: the cell does not compile, binds
\* nothing and prints nothing.  The cells after it (test_accuracy, of the
\* same shape, and the one printing both figures) are never run.
Cell_48b8090b ==
    /\ pc = "48b8090b"
    /\ Halt("48b8090b", "SyntaxError")
    /\ UNCHANGED <<fs, defined, pos, neg, records_df, X_train, X_test,
                   y_train, y_test, vectoriser, x_train, model, y_train_pred,
                   x_test, y_test_pred, example_text, example_label, x_vect,
                   y_pred, stdout, calls, run, first>>

Next ==
    \/ Cell_8a5bb299
    \/ Cell_f7b1ffed
    \/ Cell_260845a9
    \/ Cell_80ac4fb7
    \/ Cell_6ec6a00d
    \/ Cell_ffa89f0f
    \/ Cell_fb04199c
    \/ Cell_73cc99d1
    \/ Cell_bf50727f
    \/ Cell_48b8090b

Spec == Init /\ [][Next]_vars

(***************************************************************************)
(* A second run on the same files: the kernel is restarted once the first  *)
(* run has split the data or has halted, and the load and split cells run  *)
(* again.  first keeps the first run's split.                              *)
(***************************************************************************)
Restart ==
    /\ run = 1
    /\ pc \in {"260845a9", "halt"}
    /\ run' = 2
    /\ first' = [done |-> "X_train" \in defined,
                 X_train |-> X_train, X_test |-> X_test,
                 y_train |-> y_train, y_test |-> y_test]
    /\ pc' = "8a5bb299"
    /\ ename' = ""
    /\ errorAt' = ""
    /\ defined' = {}
    /\ pos' = <<>>
    /\ neg' = <<>>
    /\ records_df' = <<>>
    /\ X_train' = <<>>
    /\ X_test' = <<>>
    /\ y_train' = <<>>
    /\ y_test' = <<>>
    /\ UNCHANGED <<fs, vectoriser, x_train, model, y_train_pred, x_test,
                   y_test_pred, example_text, example_label, x_vect, y_pred,
                   stdout, calls>>

NextRerun ==
    \/ Cell_8a5bb299
    \/ Cell_f7b1ffed
    \/ Restart

SpecRerun == Init /\ [][NextRerun]_vars

(***************************************************************************)
(* Properties.                                                             *)
(***************************************************************************)
\* The index labels of a Series.
IndexSet(series) == {series[i].index : i \in 1..Len(series)}

\* A name whose last four characters are ".txt".
HasTxtSuffix(name) ==
    /\ Len(name) >= 4
    /\ name[Len(name) - 3] = "."
    /\ name[Len(name) - 2] = "t"
    /\ name[Len(name) - 1] = "x"
    /\ name[Len(name)] = "t"

\* The positions, in a directory's listing, of the entries so named.
Qualifying(path) ==
    {i \in 1..Len(fs[path].entries) : HasTxtSuffix(fs[path].entries[i].name)}

\* The k-th of them.
KthQualifying(path, k) ==
    CHOOSE i \in Qualifying(path) :
        Cardinality({j \in Qualifying(path) : j <= i}) = k

\* records holds one record per qualifying entry of the directory, in the
\* listing's order, with that file's text and the given label.
LoadedFrom(records, path, label) ==
    /\ Len(records) = Cardinality(Qualifying(path))
    /\ \A k \in 1..Len(records) :
          records[k] = [text |-> fs[path].entries[KthQualifying(path, k)].content,
                        label |-> label]

\* The directory is missing, or one of its qualifying entries cannot be read.
CannotLoad(path) ==
    \/ ~fs[path].exists
    \/ \E i \in Qualifying(path) : ~fs[path].entries[i].readable

\* C1: once the split cell has run, the index labels of the train and test
\* subsets partition the indices 0..n-1 of the dataset: no index is on both
\* sides or twice on one, every index is on a side, and the sizes add up to
\* n; the label subsets carry the same indices as the text subsets.
C1_SplitPartitionsIndices ==
    "X_train" \in defined =>
        LET n == Len(records_df)
        IN /\ Len(X_train) + Len(X_test) = n
           /\ IndexSet(X_train) \cup IndexSet(X_test) = 0..(n - 1)
           /\ IndexSet(X_train) \cap IndexSet(X_test) = {}
           /\ Cardinality(IndexSet(X_train)) = Len(X_train)
           /\ Cardinality(IndexSet(X_test)) = Len(X_test)
           /\ Len(y_train) + Len(y_test) = n
           /\ IndexSet(y_train) = IndexSet(X_train)
           /\ IndexSet(y_test) = IndexSet(X_test)

C1_Witness ==
    /\ "X_train" \in defined
    /\ Len(X_train) >= 2
    /\ Len(X_test) >= 2

\* C2: once load_data has returned, pos holds exactly one record per entry
\* of data/pos whose name ends in ".txt", with that file's text and label
\* 1, and neg one per such entry of data/neg, with label 0; every row of
\* the shuffled table has the label of the directory it was loaded from.
C2_OneRecordPerTxtFile ==
    /\ "pos" \in defined => LoadedFrom(pos, pos_data_dir, 1)
    /\ "neg" \in defined => LoadedFrom(neg, neg_data_dir, 0)
    /\ "records_df" \in defined =>
          \A i \in 1..Len(records_df) :
             \/ records_df[i].label = 1 /\ records_df[i] \in Range(pos)
             \/ records_df[i].label = 0 /\ records_df[i] \in Range(neg)

C2_Witness ==
    /\ "neg" \in defined
    /\ Len(pos) >= 1
    /\ Len(neg) >= 1
    /\ Len(fs[pos_data_dir].entries) > Len(pos)
    /\ \E i \in 1..Len(fs[pos_data_dir].entries) :
          /\ ~HasTxtSuffix(fs[pos_data_dir].entries[i].name)
          /\ fs[pos_data_dir].entries[i].readable

\* The terms of the training texts.
TrainTerms ==
    UNION {Range(analyzer(X_train[i].value)) : i \in 1..Len(X_train)}

\* The calls made on the vectoriser, in order.
VectoriserCalls == SelectSeq(calls, LAMBDA c : c.object = "vectoriser")

\* C3: every transform call on the vectoriser comes after its fit, the
\* only fit is the first call and is made on X_train, and from then on, in
\* particular after the test texts and the example text were transformed,
\* the vocabulary is the set of terms of the training texts.
C3_FittedOnTrainOnlyBeforeTransform ==
    /\ \A i \in 1..Len(VectoriserCalls) :
          IF i = 1
          THEN VectoriserCalls[i] = Call("vectoriser", "fit_transform", "X_train")
          ELSE VectoriserCalls[i].method = "transform"
    /\ vectoriser.fitted <=> "x_train" \in defined
    /\ "x_train" \in defined =>
          LET terms == TrainTerms
          IN /\ Range(vectoriser.vocabulary_) = terms
             /\ Len(vectoriser.vocabulary_) = Cardinality(terms)
    /\ "x_test" \in defined => "x_train" \in defined
    /\ "x_vect" \in defined => "x_test" \in defined

\* The test texts were transformed and one of them has a term no training
\* text has.
C3_Witness ==
    /\ "x_vect" \in defined
    /\ \E i \in 1..Len(X_test) :
          Range(analyzer(X_test[i].value)) \ TrainTerms # {}

\* The number of positions at which two label lists agree.
Matches(predicted, actual) ==
    Cardinality({i \in 1..Len(actual) : predicted[i] = actual[i]})

\* The accuracy figures are on the standard output: for each subset, the
\* number of matching positions over the number of labels.
AccuracyPrinted ==
    \E i, j \in 1..Len(stdout) :
       /\ stdout[i] = <<"Accuracy of the model on training data",
                        <<Matches(y_train_pred, values(y_train)), Len(y_train)>> >>
       /\ stdout[j] = <<"Accuracy of the model on test data",
                        <<Matches(y_test_pred, values(y_test)), Len(y_test)>> >>

\* C5: a run on which every step up to the example prediction succeeded
\* does not end before it has printed the two accuracy figures.
C5_RunPrintsAccuracy ==
    (pc = "halt" /\ "y_pred" \in defined) => AccuracyPrinted

\* C4: a second run on the same files splits the data as the first did:
\* the same texts and labels on each side, in the same order.
C4_SameSplitOnRerun ==
    (run = 2 /\ first.done /\ "X_train" \in defined) =>
        /\ values(X_train) = values(first.X_train)
        /\ values(X_test) = values(first.X_test)
        /\ values(y_train) = values(first.y_train)
        /\ values(y_test) = values(first.y_test)

\* The number of calls of a method on an object so far.
CallCount(object, method) ==
    Cardinality({i \in 1..Len(calls) :
                    calls[i].object = object /\ calls[i].method = method})

\* C6: no step changes the vectoriser once it is fitted, or the model once
\* it is fitted, and each is fitted by one call only; the vector of the
\* example text, transformed on its own, equals the row the same text got
\* when the test texts were transformed.
C6_WrittenOnceThenReadOnly ==
    [][/\ vectoriser.fitted => vectoriser' = vectoriser
       /\ model.fitted => model' = model
       /\ vectoriser.fitted' => CallCount("vectoriser", "fit_transform")' = 1
       /\ model.fitted' => CallCount("model", "fit")' = 1
       /\ "x_vect" \in defined' => x_vect'[1] = x_test'[2]]_vars

C6_Witness ==
    /\ "x_vect" \in defined
    /\ vectoriser.fitted
    /\ model.fitted
    /\ CallCount("vectoriser", "transform") = 2
    /\ CallCount("model", "predict") = 3

\* C7: when a data directory is missing or holds a qualifying entry that
\* cannot be read, the load cell raises: the name load_data was to bind
\* stays unbound (no partial list), the run halts in that cell with no
\* table, no split, no fitted object, no library call and no output.
C7_LoadFailureIsFatal ==
    /\ pc # "8a5bb299" =>
          /\ CannotLoad(pos_data_dir) =>
                errorAt = "8a5bb299" /\ "pos" \notin defined /\ pos = <<>>
          /\ CannotLoad(neg_data_dir) =>
                errorAt = "8a5bb299" /\ "neg" \notin defined /\ neg = <<>>
    /\ errorAt = "8a5bb299" =>
          /\ pc = "halt"
          /\ ename \in {"FileNotFoundError", "OSError"}
          /\ defined \subseteq {"pos"}
          /\ records_df = <<>>
          /\ X_train = <<>> /\ X_test = <<>> /\ y_train = <<>> /\ y_test = <<>>
          /\ ~vectoriser.fitted /\ ~model.fitted
          /\ x_train = <<>> /\ x_test = <<>>
          /\ y_train_pred = <<>> /\ y_test_pred = <<>>
          /\ calls = <<>> /\ stdout = <<>>

\* The load halted on an unreadable file that follows a readable one.
C7_Witness ==
    /\ errorAt = "8a5bb299"
    /\ ename = "OSError"
    /\ \E i, j \in Qualifying(pos_data_dir) :
          /\ i < j
          /\ fs[pos_data_dir].entries[i].readable
          /\ ~fs[pos_data_dir].entries[j].readable

\* The sum of a row's entries.
RECURSIVE RowSum(_)
RowSum(row) == IF row = <<>> THEN 0 ELSE Head(row) + RowSum(Tail(row))

\* The tokens of a text that are terms of the fitted vocabulary.
KnownTokens(text) ==
    LET tokens == analyzer(text)
        terms == Range(vectoriser.vocabulary_)
    IN {i \in 1..Len(tokens) : tokens[i] \in terms}

\* A vector over the fitted vocabulary to which only the text's known
\* tokens contribute.
VectorOverVocabulary(row, text) ==
    LET tokens == Range(analyzer(text))
    IN /\ Len(row) = Len(vectoriser.vocabulary_)
       /\ RowSum(row) = Cardinality(KnownTokens(text))
       /\ \A j \in 1..Len(row) :
             row[j] > 0 => vectoriser.vocabulary_[j] \in tokens

\* C8: no transform on the fitted vectoriser fails, and every vector it
\* returns, for a test text and for the example text, has one entry per
\* term of the fitted vocabulary, with no contribution from a token that
\* is not in the vocabulary.
C8_TransformOverFittedVocabulary ==
    /\ ename # "NotFittedError"
    /\ errorAt \notin {"fb04199c", "bf50727f"}
    /\ "x_test" \in defined =>
          /\ Len(x_test) = Len(X_test)
          /\ \A i \in 1..Len(x_test) :
                VectorOverVocabulary(x_test[i], X_test[i].value)
    /\ "x_vect" \in defined =>
          /\ Len(x_vect) = 1
          /\ VectorOverVocabulary(x_vect[1], example_text)

\* The example text has a token that is not in the vocabulary, and was
\* transformed.
C8_Witness ==
    /\ "x_vect" \in defined
    /\ Cardinality(KnownTokens(example_text)) < Len(analyzer(example_text))

\* How often a record occurs in a list of records.
Occurrences(r, records) ==
    Cardinality({i \in 1..Len(records) : records[i] = r})

\* Position i of both Series is one row of the table.
Paired(texts, labels) ==
    /\ Len(texts) = Len(labels)
    /\ \A i \in 1..Len(texts) :
          /\ texts[i].index = labels[i].index
          /\ records_df[texts[i].index + 1] =
                [text |-> texts[i].value, label |-> labels[i].value]

\* The label the fitted model gives a text.
PredictionFor(text) ==
    model.classes_[IF dot(row_of(vectoriser.vocabulary_, text), model.coef_)
                      + model.intercept_ > 0 THEN 2 ELSE 1]

\* C9: the shuffled table holds the loaded records, each as often as it
\* was loaded; position i of the training labels and of the training texts
\* is one and the same row of the table, and likewise for the test subset;
\* and position i of each prediction list is the prediction for the text
\* at position i of its subset.
C9_PairingPreserved ==
    /\ "records_df" \in defined =>
          /\ Len(records_df) = Len(pos) + Len(neg)
          /\ \A i \in 1..Len(records_df) :
                Occurrences(records_df[i], records_df)
                   = Occurrences(records_df[i], pos \o neg)
    /\ "X_train" \in defined =>
          Paired(X_train, y_train) /\ Paired(X_test, y_test)
    /\ "y_train_pred" \in defined =>
          /\ Len(y_train_pred) = Len(y_train)
          /\ \A i \in 1..Len(y_train) :
                y_train_pred[i] = PredictionFor(X_train[i].value)
    /\ "y_test_pred" \in defined =>
          /\ Len(y_test_pred) = Len(y_test)
          /\ \A i \in 1..Len(y_test) :
                y_test_pred[i] = PredictionFor(X_test[i].value)

\* Both prediction lists exist, the test subset holds both labels, and the
\* shuffle moved a record.
C9_Witness ==
    /\ "y_test_pred" \in defined
    /\ Len(y_test) >= 2
    /\ y_test[1].value # y_test[2].value
    /\ records_df # pos \o neg

\* C10: with four or more records the test subset has a second element,
\* so the example cell raises no IndexError; and the text and the label it
\* binds and prints are those of one row of the table, the row at position
\* 1 of the test subset.
C10_ExampleInRange ==
    /\ ("X_test" \in defined /\ Len(records_df) >= 4) => Len(X_test) >= 2
    /\ errorAt = "73cc99d1" => Len(records_df) < 4
    /\ "example_text" \in defined =>
          /\ X_test[2].index = y_test[2].index
          /\ records_df[X_test[2].index + 1] =
                [text |-> example_text, label |-> example_label]
          /\ \E i \in 1..Len(stdout) :
                stdout[i] = <<"Text, Actual Label",
                              <<example_text, example_label>> >>

\* The corpus of two positive and two negative reviews reached the cell.
C10_Witness ==
    /\ "example_text" \in defined
    /\ Len(pos) = 2
    /\ Len(neg) = 2

====
